---- MODULE Spec2Model ----
(***************************************************************************)
(* A model of the project-management tutor bot of main.py: the EVM         *)
(* calculator, the lesson catalogue, the per-user session dictionary and   *)
(* the eight handlers that main() registers with the dispatcher.           *)
(*                                                                         *)
(* Modelling conventions                                                   *)
(*  - a Python str that the code inspects character by character (command  *)
(*    arguments, callback data, topic names) is a sequence of one-character*)
(*    strings;                                                             *)
(*  - a Python float is the binary64 number it is, with the rounding, the  *)
(*    infinities, the signed zeros and the NaN of the format;              *)
(*  - Python None is the record None;                                      *)
(*  - a completion text is the run [from, to) of character positions it    *)
(*    occupies in the completion, so a slice of it is again a run and a    *)
(*    message records exactly which characters it carries;                 *)
(*  - a handler is an operator from (session dictionary, input) to its     *)
(*    effect: the dictionary afterwards, the messages sent, whether an     *)
(*    exception left the handler, the completion calls made, the prompt    *)
(*    submitted and the evm_calc call made; the action applies it to the   *)
(*    acting user's dictionary.  Sending a message always succeeds.        *)
(***************************************************************************)
EXTENDS Integers, Sequences, FiniteSets, TLC

\* client:    the module-level OpenAI client, None when no key is configured
\* user_data: context.user_data, one dictionary per user
\* out:       the last update handled: its handler, user and input, the
\*            messages sent, whether an exception left the handler, the
\*            completion calls made, the prompt submitted, the evm_calc call
VARIABLES client, user_data, out

vars == <<client, user_data, out>>

None == [none |-> TRUE]

----------------------------------------------------------------------------
(* Characters and the str methods the handlers use                         *)
(*                                                                         *)
(* A character is a one-character string; a character that is outside      *)
(* ASCII, or a control character other than \t, \n, \f, \r, is written by   *)
(* its code point, "U+017F".  The alphabet is ASCII, the cased letters of   *)
(* CaseTable (every letter that a case mapping takes to ASCII letters, and  *)
(* U+00E9, U+00C9, U+0130 as letters that none does), the decimal digits of *)
(* ExtraDigits and the white space of Unicode.                              *)

LowerChars == <<"a", "b", "c", "d", "e", "f", "g", "h", "i", "j", "k", "l", "m", "n", "o", "p", "q", "r", "s", "t", "u", "v", "w", "x", "y", "z">>

UpperChars == <<"A", "B", "C", "D", "E", "F", "G", "H", "I", "J", "K", "L", "M", "N", "O", "P", "Q", "R", "S", "T", "U", "V", "W", "X", "Y", "Z">>

DigitChars == <<"0", "1", "2", "3", "4", "5", "6", "7", "8", "9">>

\* the cased letters outside ASCII with their full case mappings: sharp s,
\* e acute (small, capital), I with dot, dotless i, long s, capital sharp s,
\* Kelvin sign, the ligatures ff fi fl ffi ffl (long s)t st; fold is the
\* case folding, which only the properties use
CaseTable ==
    <<[c |-> "U+00DF", lower |-> <<"U+00DF">>, upper |-> <<"S", "S">>, title |-> <<"S", "s">>, fold |-> <<"s", "s">>],
     [c |-> "U+00E9", lower |-> <<"U+00E9">>, upper |-> <<"U+00C9">>, title |-> <<"U+00C9">>, fold |-> <<"U+00E9">>],
     [c |-> "U+00C9", lower |-> <<"U+00E9">>, upper |-> <<"U+00C9">>, title |-> <<"U+00C9">>, fold |-> <<"U+00E9">>],
     [c |-> "U+0130", lower |-> <<"i", "U+0307">>, upper |-> <<"U+0130">>, title |-> <<"U+0130">>, fold |-> <<"i", "U+0307">>],
     [c |-> "U+0131", lower |-> <<"U+0131">>, upper |-> <<"I">>, title |-> <<"I">>, fold |-> <<"U+0131">>],
     [c |-> "U+017F", lower |-> <<"U+017F">>, upper |-> <<"S">>, title |-> <<"S">>, fold |-> <<"s">>],
     [c |-> "U+1E9E", lower |-> <<"U+00DF">>, upper |-> <<"U+1E9E">>, title |-> <<"U+1E9E">>, fold |-> <<"s", "s">>],
     [c |-> "U+212A", lower |-> <<"k">>, upper |-> <<"U+212A">>, title |-> <<"U+212A">>, fold |-> <<"k">>],
     [c |-> "U+FB00", lower |-> <<"U+FB00">>, upper |-> <<"F", "F">>, title |-> <<"F", "f">>, fold |-> <<"f", "f">>],
     [c |-> "U+FB01", lower |-> <<"U+FB01">>, upper |-> <<"F", "I">>, title |-> <<"F", "i">>, fold |-> <<"f", "i">>],
     [c |-> "U+FB02", lower |-> <<"U+FB02">>, upper |-> <<"F", "L">>, title |-> <<"F", "l">>, fold |-> <<"f", "l">>],
     [c |-> "U+FB03", lower |-> <<"U+FB03">>, upper |-> <<"F", "F", "I">>, title |-> <<"F", "f", "i">>, fold |-> <<"f", "f", "i">>],
     [c |-> "U+FB04", lower |-> <<"U+FB04">>, upper |-> <<"F", "F", "L">>, title |-> <<"F", "f", "l">>, fold |-> <<"f", "f", "l">>],
     [c |-> "U+FB05", lower |-> <<"U+FB05">>, upper |-> <<"S", "T">>, title |-> <<"S", "t">>, fold |-> <<"s", "t">>],
     [c |-> "U+FB06", lower |-> <<"U+FB06">>, upper |-> <<"S", "T">>, title |-> <<"S", "t">>, fold |-> <<"s", "t">>]>>

\* decimal digits outside ASCII: Arabic-Indic 2, 3, 5 and fullwidth 1
ExtraDigits ==
    <<[c |-> "U+0662", value |-> 2], [c |-> "U+0663", value |-> 3], [c |-> "U+0665", value |-> 5], [c |-> "U+FF11", value |-> 1]>>

\* position of character c in the sequence s, 0 when it does not occur
IndexOf(c, s) == IF \E i \in 1..Len(s) : s[i] = c THEN CHOOSE i \in 1..Len(s) : s[i] = c ELSE 0

\* the rows of ASCII letters in the form of CaseTable
AsciiCases ==
    [i \in 1..26 |-> [c |-> LowerChars[i], lower |-> <<LowerChars[i]>>, upper |-> <<UpperChars[i]>>, title |-> <<UpperChars[i]>>, fold |-> <<LowerChars[i]>>]]
    \o [i \in 1..26 |-> [c |-> UpperChars[i], lower |-> <<LowerChars[i]>>, upper |-> <<UpperChars[i]>>, title |-> <<UpperChars[i]>>, fold |-> <<LowerChars[i]>>]]

\* the case mappings of every cased letter, by the letter
CaseMap == LET rows == AsciiCases \o CaseTable IN [c \in {rows[i].c : i \in 1..Len(rows)} |-> rows[CHOOSE i \in 1..Len(rows) : rows[i].c = c]]

\* the character is a cased letter
iscased(c) == c \in DOMAIN CaseMap

isupper(c) == IndexOf(c, UpperChars) # 0

\* str.isspace(): the white space of Unicode
isspace(c) ==
    c \in {"\t", "\n", "U+000B", "\f", "\r", "U+001C", "U+001D", "U+001E", "U+001F", " ", "U+0085", "U+00A0",
           "U+1680", "U+2000", "U+2001", "U+2002", "U+2003", "U+2004", "U+2005", "U+2006", "U+2007", "U+2008",
           "U+2009", "U+200A", "U+2028", "U+2029", "U+202F", "U+205F", "U+3000"}

\* the lower-case mapping of a character, a string
lower(c) == IF iscased(c) THEN CaseMap[c].lower ELSE <<c>>

\* the upper-case mapping of a character, a string
upper(c) == IF iscased(c) THEN CaseMap[c].upper ELSE <<c>>

\* the title-case mapping of a character, a string
totitle(c) == IF iscased(c) THEN CaseMap[c].title ELSE <<c>>

\* the concatenation of the strings f[1], ..., f[n]
RECURSIVE Flatten(_)
Flatten(f) == IF f = <<>> THEN <<>> ELSE Head(f) \o Flatten(Tail(f))

\* str.lower()
str_lower(s) == Flatten([i \in 1..Len(s) |-> lower(s[i])])

\* str.upper()
str_upper(s) == Flatten([i \in 1..Len(s) |-> upper(s[i])])

\* str.title(): a character is replaced by its lower-case mapping when the
\* character before it is cased and by its title-case mapping when not
title(s) == Flatten([i \in 1..Len(s) |-> IF i > 1 /\ iscased(s[i-1]) THEN lower(s[i]) ELSE totitle(s[i])])

RECURSIVE lstrip(_)
lstrip(s) == IF s # <<>> /\ isspace(Head(s)) THEN lstrip(Tail(s)) ELSE s

RECURSIVE rstrip(_)
rstrip(s) == IF s # <<>> /\ isspace(s[Len(s)]) THEN rstrip(SubSeq(s, 1, Len(s) - 1)) ELSE s

\* str.strip()
strip(s) == rstrip(lstrip(s))

\* sep.join(words)
RECURSIVE join(_, _)
join(sep, words) == IF words = <<>> THEN <<>> ELSE IF Len(words) = 1 THEN words[1] ELSE words[1] \o sep \o join(sep, Tail(words))

\* s.startswith(p)
startswith(s, p) == Len(s) >= Len(p) /\ SubSeq(s, 1, Len(p)) = p

\* s.split(sep, 1)[1] for a one-character sep that occurs in s
split1_second(s, sep) == SubSeq(s, IndexOf(sep, s) + 1, Len(s))

----------------------------------------------------------------------------
(* Numbers.  A Python float is a binary64 number, modelled exactly: a      *)
(* finite float is sign * man * 2^exp with sign 1 or -1 and man an odd     *)
(* natural number of at most 53 binary digits, the zeros are man = 0 with  *)
(* their sign, beside them the two infinities and the not-a-number (one    *)
(* NaN: its sign and payload are not kept).  Every operation rounds its    *)
(* exact result to the nearest float, ties to the even one.  The           *)
(* arithmetic is on natural numbers of any size.                           *)

Abs(n) == IF n < 0 THEN -n ELSE n

Min(a, b) == IF a <= b THEN a ELSE b

Max(a, b) == IF a >= b THEN a ELSE b

\* A natural number of any size is the sequence of its digits to the base
\* Base, the least significant first and the last one not zero; <<>> is 0.
Base == 32768

LimbBits == 15

RECURSIVE Pow2(_)
Pow2(n) == IF n = 0 THEN 1 ELSE 2 * Pow2(n - 1)

\* the number of binary digits of a digit
RECURSIVE Bits(_)
Bits(n) == IF n = 0 THEN 0 ELSE 1 + Bits(n \div 2)

\* the digits a without the zeros at the high end
Trim(a) == SubSeq(a, 1, IF \A i \in 1..Len(a) : a[i] = 0 THEN 0 ELSE CHOOSE i \in 1..Len(a) : a[i] # 0 /\ \A j \in (i + 1)..Len(a) : a[j] = 0)

\* the natural number n below Base^2 as such a sequence
RECURSIVE Big(_)
Big(n) == IF n = 0 THEN <<>> ELSE <<n % Base>> \o Big(n \div Base)

Limb(a, i) == IF i <= Len(a) THEN a[i] ELSE 0

\* -1, 0, 1 as a < b, a = b, a > b
BCmp(a, b) ==
    IF Len(a) # Len(b) THEN (IF Len(a) < Len(b) THEN -1 ELSE 1)
    ELSE IF a = b THEN 0
    ELSE LET i == CHOOSE i \in 1..Len(a) : a[i] # b[i] /\ \A j \in (i + 1)..Len(a) : a[j] = b[j]
         IN  IF a[i] < b[i] THEN -1 ELSE 1

\* the number whose digit i is s[i] in 0..(2 * Base - 2): a carry reaches
\* digit i from a digit of at least Base below it when every digit between
\* the two is Base - 1
Carry(s) ==
    LET c(i) == IF \E j \in 1..(i - 1) : s[j] >= Base /\ \A l \in (j + 1)..(i - 1) : s[l] = Base - 1 THEN 1 ELSE 0
    IN  Trim([i \in 1..(Len(s) + 1) |-> IF i > Len(s) THEN c(i) ELSE (s[i] + c(i)) % Base])

\* a + b
BAdd(a, b) == Carry([i \in 1..Max(Len(a), Len(b)) |-> Limb(a, i) + Limb(b, i)])

\* a - b for a >= b: a borrow reaches digit i from a negative difference
\* below it when every difference between the two is 0
BSub(a, b) ==
    LET d == [i \in 1..Len(a) |-> a[i] - Limb(b, i)]
        c(i) == IF \E j \in 1..(i - 1) : d[j] < 0 /\ \A l \in (j + 1)..(i - 1) : d[l] = 0 THEN 1 ELSE 0
    IN  Trim([i \in 1..Len(a) |-> (d[i] - c(i) + Base) % Base])

\* a * k for 0 <= k < Base
BMulSmall(a, k) == Carry([i \in 1..(Len(a) + 1) |-> ((Limb(a, i) * k) % Base) + (IF i = 1 THEN 0 ELSE (a[i - 1] * k) \div Base)])

\* a * 2^k
BShl(a, k) == IF a = <<>> THEN <<>> ELSE [i \in 1..(k \div LimbBits) |-> 0] \o BMulSmall(a, Pow2(k % LimbBits))

\* a \div 2^k
BShr(a, k) ==
    LET w == k \div LimbBits
        s == Pow2(k % LimbBits)
        b == IF w >= Len(a) THEN <<>> ELSE SubSeq(a, w + 1, Len(a))
    IN  Trim([i \in 1..Len(b) |-> (b[i] \div s) + (Limb(b, i + 1) % s) * (Base \div s)])

\* the number of binary digits of a
BitLen(a) == IF a = <<>> THEN 0 ELSE LimbBits * (Len(a) - 1) + Bits(a[Len(a)])

\* the number of zero binary digits at the low end of a # 0
TrailingZeros(a) ==
    LET i == CHOOSE i \in 1..Len(a) : a[i] # 0 /\ \A j \in 1..(i - 1) : a[j] = 0
    IN  LimbBits * (i - 1) + (CHOOSE z \in 0..LimbBits : a[i] % Pow2(z) = 0 /\ a[i] % Pow2(z + 1) # 0)

\* the largest q' <= q with D * q' <= R
RECURSIVE Correct(_, _, _)
Correct(R, D, q) == IF BCmp(BMulSmall(D, q), R) > 0 THEN Correct(R, D, q - 1) ELSE q

\* R \div D for R < D * Base and the last digit of D at least Base / 2: the
\* quotient of the leading digits is at most 2 above it
QuoLimb(R, D) ==
    IF BCmp(R, D) < 0 THEN 0
    ELSE LET n == Len(D)
             top == Limb(R, n + 1) * Base + Limb(R, n)
         IN  Correct(R, D, Min(Base - 1, top \div D[n]))

\* The long division by D runs from the first digit of the dividend N to
\* the last: its state st is the index i of the digit to take next, the
\* quotient q and the remainder r of the digits taken.

\* the state after the digit d of the quotient at the running remainder R
DivDigit(D, st, R, d) == [i |-> st.i - 1, q |-> Trim(<<d>> \o st.q), r |-> BSub(R, BMulSmall(D, d))]

\* the state after the step at the running remainder R
DivStep(D, st, R) == DivDigit(D, st, R, QuoLimb(R, D))

\* the state after the digit N[st.i] is taken
DivNext(N, D, st) == DivStep(D, st, Trim(<<N[st.i]>> \o st.r))

\* the state after every digit is taken
RECURSIVE DivLoop(_, _, _)
DivLoop(N, D, st) == IF st.i = 0 THEN st ELSE DivLoop(N, D, DivNext(N, D, st))

\* quotient and remainder of N by D, the last digit of D at least
\* Base / 2: the Len(D) - 1 leading digits of N are a number below D
DivTop(N, D) ==
    DivLoop(N, D, [i |-> Max(Len(N) - Len(D) + 1, 0), q |-> <<>>, r |-> SubSeq(N, Max(Len(N) - Len(D) + 2, 1), Len(N))])

\* quotient and remainder with s more binary digits in both numbers taken
\* back to those of the numbers themselves
DivScaled(t, s) == [q |-> t.q, r |-> BShr(t.r, s)]

\* quotient and remainder of N by D # 0, both with s more binary digits to
\* make the last digit of D at least Base / 2
DivShifted(N, D, s) == DivScaled(DivTop(BShl(N, s), BShl(D, s)), s)

\* quotient and remainder of N by D # 0
BDivMod(N, D) == DivShifted(N, D, LimbBits - Bits(D[Len(D)]))

\* a * 5^n
RECURSIVE MulPow5(_, _)
MulPow5(a, n) ==
    IF a = <<>> \/ n = 0 THEN a
    ELSE IF n >= 6 THEN MulPow5(BMulSmall(a, 15625), n - 6)
    ELSE MulPow5(BMulSmall(a, 5), n - 1)

\* the zero of a sign
Zero(sign) == [sign |-> sign, man |-> <<>>, exp |-> 0]

Inf(sign) == [inf |-> sign]

NaN == [nan |-> TRUE]

IsInf(x) == "inf" \in DOMAIN x

IsNaN(x) == "nan" \in DOMAIN x

IsFinite(x) == "man" \in DOMAIN x

\* the float sign * m * 2^e, for a value that binary64 holds
Fin(sign, m, e) ==
    IF m = <<>> THEN Zero(sign)
    ELSE LET z == TrailingZeros(m) IN [sign |-> sign, man |-> BShr(m, z), exp |-> e + z]

\* the integer n, of magnitude below Base^2, as a float
Num(n) == Fin(IF n < 0 THEN -1 ELSE 1, Big(Abs(n)), 0)

\* binary64: 53 binary digits, the last place at 2^-1074 or above, every
\* finite value below 2^1024
MantBits == 53

MinExp == -1074

MaxBits == 1024

\* the float sign * m * 2^E of a rounded m: an infinity from 2^1024 on
RoundRange(sign, m, E) == IF BitLen(m) + E > MaxBits THEN Inf(sign) ELSE Fin(sign, m, E)

\* sign * m * 2^E with what was cut off below the last place: c is 1, 0, -1
\* as that is more than, exactly or less than half a place; a half goes to
\* the even one
RoundHalf(sign, m, E, c) ==
    RoundRange(sign, IF c > 0 \/ (c = 0 /\ m # <<>> /\ m[1] % 2 = 1) THEN BAdd(m, <<1>>) ELSE m, E)

\* 1, 0, -1 as low + f is more than, exactly or less than half, for a
\* fraction f below one place of low that is not zero exactly when rest
HalfCmp(low, half, rest) == IF BCmp(low, half) = 0 /\ rest THEN 1 ELSE BCmp(low, half)

\* sign * (q + f) * 2^e0 cut to m = q \div 2^sh at the last place 2^E
RoundCut(sign, q, rest, m, sh, E) ==
    RoundHalf(sign, m, E, HalfCmp(BSub(q, BShl(m, sh)), BShl(<<1>>, sh - 1), rest))

\* sign * (q + f) * 2^e0 rounded at the last place 2^E, E > e0
RoundPlace(sign, q, rest, e0, E) == RoundCut(sign, q, rest, BShr(q, E - e0), E - e0, E)

\* sign * (quotient with remainder qr) * 2^e0 for a quotient of 55 or 56
\* binary digits: the last place is 53 digits below the first one, and
\* 2^-1074 at least
RoundQuotient(sign, qr, e0) ==
    RoundPlace(sign, qr.q, qr.r # <<>>, e0, Max(e0 + BitLen(qr.q) - MantBits, MinExp))

\* sign * (N / D) * 2^e as the quotient of N * 2^k by D, or of N by
\* D * 2^-k, times 2^(e - k)
RoundScaled(sign, N, D, e, k) ==
    RoundQuotient(sign, BDivMod(IF k >= 0 THEN BShl(N, k) ELSE N, IF k >= 0 THEN D ELSE BShl(D, -k)), e - k)

\* the binary64 nearest to sign * (N / D) * 2^e, ties to the even one; an
\* infinity from 2^1024 - 2^970 on, a zero up to 2^-1075
Round(sign, N, D, e) ==
    IF N = <<>> THEN Zero(sign)
    ELSE RoundScaled(sign, N, D, e, MantBits + 2 - (BitLen(N) - BitLen(D)))

ZeroDivisionError == [error |-> "ZeroDivisionError"]

IsError(x) == "error" \in DOMAIN x

IsNone(x) == x = None

\* x == 0 for a float x: true of both zeros
IsZero(x) == IsFinite(x) /\ x.man = <<>>

\* bool(x): None and the zeros are false, every other float is true
Truthy(x) == ~IsNone(x) /\ ~IsZero(x)

\* -a
neg(a) == IF IsNaN(a) THEN NaN ELSE IF IsInf(a) THEN Inf(-a.inf) ELSE [a EXCEPT !.sign = -a.sign]

\* sa * A * 2^e + sb * B * 2^e for A, B # 0
AddAligned(sa, A, sb, B, e) ==
    IF sa = sb THEN Round(sa, BAdd(A, B), <<1>>, e)
    ELSE IF A = B THEN Zero(1)
    ELSE IF BCmp(A, B) > 0 THEN Round(sa, BSub(A, B), <<1>>, e)
    ELSE Round(sb, BSub(B, A), <<1>>, e)

\* a + b; a term more than 55 binary digits below the other one does not
\* move the nearest float away from the other one
add(a, b) ==
    IF IsNaN(a) \/ IsNaN(b) THEN NaN
    ELSE IF IsInf(a) /\ IsInf(b) THEN (IF a.inf = b.inf THEN a ELSE NaN)
    ELSE IF IsInf(a) THEN a
    ELSE IF IsInf(b) THEN b
    ELSE IF IsZero(a) /\ IsZero(b) THEN Zero(IF a.sign = b.sign THEN a.sign ELSE 1)
    ELSE IF IsZero(a) THEN b
    ELSE IF IsZero(b) THEN a
    ELSE IF (a.exp + BitLen(a.man)) - (b.exp + BitLen(b.man)) > MantBits + 2 THEN a
    ELSE IF (b.exp + BitLen(b.man)) - (a.exp + BitLen(a.man)) > MantBits + 2 THEN b
    ELSE LET e == Min(a.exp, b.exp)
         IN  AddAligned(a.sign, BShl(a.man, a.exp - e), b.sign, BShl(b.man, b.exp - e), e)

\* a - b
sub(a, b) == add(a, neg(b))

\* a / b, raising ZeroDivisionError for b == 0
truediv(a, b) ==
    IF IsZero(b) THEN ZeroDivisionError
    ELSE IF IsNaN(a) \/ IsNaN(b) THEN NaN
    ELSE IF IsInf(a) /\ IsInf(b) THEN NaN
    ELSE IF IsInf(a) THEN Inf(a.inf * b.sign)
    ELSE IF IsInf(b) THEN Zero(a.sign * b.inf)
    ELSE Round(a.sign * b.sign, a.man, b.man, a.exp - b.exp)

\* the value of every decimal digit, by the digit
DigitMap == [c \in {DigitChars[i] : i \in 1..10} \cup {ExtraDigits[i].c : i \in 1..Len(ExtraDigits)} |-> IF IndexOf(c, DigitChars) # 0 THEN IndexOf(c, DigitChars) - 1 ELSE ExtraDigits[CHOOSE i \in 1..Len(ExtraDigits) : ExtraDigits[i].c = c].value]

isdigit(c) == c \in DOMAIN DigitMap

\* the value of at most four decimal digits
RECURSIVE SmallValue(_)
SmallValue(s) == IF s = <<>> THEN 0 ELSE 10 * SmallValue(SubSeq(s, 1, Len(s) - 1)) + DigitMap[s[Len(s)]]

\* The value of a string of decimal digits is taken from the left, up to
\* four digits at a time: the state st is the value of the digits taken and
\* the digits that rest.

\* the state after the next n digits are taken
DigitsTake(st, n) ==
    [value |-> BAdd(BMulSmall(st.value, <<10, 100, 1000, 10000>>[n]), Big(SmallValue(SubSeq(st.rest, 1, n)))),
     rest |-> SubSeq(st.rest, n + 1, Len(st.rest))]

RECURSIVE DigitsLoop(_)
DigitsLoop(st) == IF st.rest = <<>> THEN st.value ELSE DigitsLoop(DigitsTake(st, Min(4, Len(st.rest))))

\* the value of a string of decimal digits
DigitsValue(s) == DigitsLoop([value |-> <<>>, rest |-> s])

\* the value of the digits of an exponent, or ExpCap when it is larger:
\* a word of fewer than ExpCap - 400 characters with such an exponent is
\* an infinity or a zero whatever the exponent is beyond ExpCap
ExpCap == 100000

RECURSIVE ExpValue(_)
ExpValue(s) == IF s = <<>> THEN 0 ELSE Min(ExpCap, 10 * ExpValue(SubSeq(s, 1, Len(s) - 1)) + DigitMap[s[Len(s)]])

\* digits, with single underscores allowed between two digits
IsDigitPart(s) ==
    /\ s # <<>>
    /\ isdigit(s[1])
    /\ isdigit(s[Len(s)])
    /\ \A i \in 1..Len(s) : isdigit(s[i]) \/ s[i] = "_"
    /\ \A i \in 1..(Len(s) - 1) : ~(s[i] = "_" /\ s[i + 1] = "_")

\* the digits of a digit part
DigitsOf(s) == SelectSeq(s, LAMBDA c : isdigit(c))

\* the digits s without the zeros in front
Significant(s) ==
    IF \A i \in 1..Len(s) : DigitMap[s[i]] = 0 THEN <<>>
    ELSE SubSeq(s, CHOOSE i \in 1..Len(s) : DigitMap[s[i]] # 0 /\ \A j \in 1..(i - 1) : DigitMap[s[j]] = 0, Len(s))

\* a string without its leading sign, and the sign
Unsigned(s) == IF s # <<>> /\ s[1] \in {"+", "-"} THEN Tail(s) ELSE s

SignOf(s) == IF s # <<>> /\ s[1] = "-" THEN -1 ELSE 1

\* ASCII lower case of a character
ascii_lower(c) == IF isupper(c) THEN LowerChars[IndexOf(c, UpperChars)] ELSE c

\* the white space float() drops around a word: that of str.strip() but
\* for the four separators U+001C to U+001F
float_space(c) == isspace(c) /\ c \notin {"U+001C", "U+001D", "U+001E", "U+001F"}

\* the word without the white space of float() around it
float_strip(s) ==
    IF \A i \in 1..Len(s) : float_space(s[i]) THEN <<>>
    ELSE SubSeq(s, CHOOSE i \in 1..Len(s) : ~float_space(s[i]) /\ \A j \in 1..(i - 1) : float_space(s[j]),
                   CHOOSE i \in 1..Len(s) : ~float_space(s[i]) /\ \A j \in (i + 1)..Len(s) : float_space(s[j]))

\* the largest and the smallest decimal exponent of a leading digit whose
\* number can be finite and not zero: 10^309 is beyond the largest float,
\* 10^-324 below half the smallest
MaxDecimal == 309

MinDecimal == -323

\* the float nearest to sign * M * 10^p for the digits sig of M # 0, or
\* the zero for no digits: M * 5^p * 2^p, or M / 5^-p * 2^p
float_decimal(sign, sig, p) ==
    IF sig = <<>> THEN Zero(sign)
    ELSE IF p + Len(sig) > MaxDecimal THEN Inf(sign)
    ELSE IF p + Len(sig) < MinDecimal THEN Zero(sign)
    ELSE Round(sign, MulPow5(DigitsValue(sig), Max(p, 0)), MulPow5(<<1>>, Max(-p, 0)), p)

\* the float of a number with the mantissa mant, its point at dot (0 for
\* none), and the exponent expo when has_exp
float_parts(sign, mant, dot, expo, has_exp) ==
    LET ip == IF dot = 0 THEN mant ELSE SubSeq(mant, 1, dot - 1)
        fp == IF dot = 0 THEN <<>> ELSE SubSeq(mant, dot + 1, Len(mant))
        mant_ok == IF dot = 0 THEN IsDigitPart(ip)
                   ELSE (ip = <<>> \/ IsDigitPart(ip)) /\ (fp = <<>> \/ IsDigitPart(fp)) /\ (ip # <<>> \/ fp # <<>>)
        exp_ok == ~has_exp \/ IsDigitPart(Unsigned(expo))
    IN  IF ~(mant_ok /\ exp_ok) THEN None
        ELSE float_decimal(sign, Significant(DigitsOf(ip) \o DigitsOf(fp)),
                           SignOf(expo) * ExpValue(DigitsOf(Unsigned(expo))) - Len(DigitsOf(fp)))

\* the float of a number body with its exponent letter at e (0 for none)
float_number(sign, body, e) ==
    LET mant == IF e = 0 THEN body ELSE SubSeq(body, 1, e - 1)
        expo == IF e = 0 THEN <<>> ELSE SubSeq(body, e + 1, Len(body))
    IN  float_parts(sign, mant, IndexOf(".", mant), expo, e # 0)

\* the float of a word without white space around it
float_word(s) ==
    LET body == Unsigned(s)
        word == [i \in 1..Len(body) |-> ascii_lower(body[i])]
    IN  IF word \in {<<"i", "n", "f">>, <<"i", "n", "f", "i", "n", "i", "t", "y">>} THEN Inf(SignOf(s))
        ELSE IF word = <<"n", "a", "n">> THEN NaN
        ELSE float_number(SignOf(s), body, IndexOf("e", word))

\* float(tok): white space around the word is dropped; after an optional
\* sign, "inf", "infinity" and "nan" in any letter case are the infinities
\* and the NaN; a decimal number is digits with an optional point and an
\* optional exponent, single underscores allowed between digits, and its
\* value M * 10^p is rounded to the nearest float; every other word
\* raises ValueError (None)
float(tok) == float_word(float_strip(tok))

----------------------------------------------------------------------------
(* The EVM calculator                                                      *)

\* evm_calc with the EAC guard written "if res['CPI'] and BAC"
evm_calc_eac_truthy_bac(PV, EV, AC, BAC) ==
    LET SPI == IF IsZero(PV) THEN None ELSE truediv(EV, PV)
        CPI == IF IsZero(AC) THEN None ELSE truediv(EV, AC)
    IN  [SPI |-> SPI, CPI |-> CPI,
         EAC |-> IF Truthy(CPI) /\ Truthy(BAC)
                 THEN add(AC, truediv(sub(BAC, EV), CPI)) ELSE None]

evm_calc(PV, EV, AC, BAC) ==
    LET SPI == IF IsZero(PV) THEN None ELSE truediv(EV, PV)
        CPI == IF IsZero(AC) THEN None ELSE truediv(EV, AC)
    IN  [SPI |-> SPI, CPI |-> CPI,
         EAC |-> IF Truthy(CPI) /\ ~IsNone(BAC)
                 THEN add(AC, truediv(sub(BAC, EV), CPI)) ELSE None]

----------------------------------------------------------------------------
(* The lesson catalogue                                                    *)

Foundations == <<"F", "o", "u", "n", "d", "a", "t", "i", "o", "n", "s">>

Planning == <<"P", "l", "a", "n", "n", "i", "n", "g">>

Risk == <<"R", "i", "s", "k">>

Delivery == <<"D", "e", "l", "i", "v", "e", "r", "y">>

EVM == <<"E", "V", "M">>

Agile == <<"A", "g", "i", "l", "e">>

Stakeholders == <<"S", "t", "a", "k", "e", "h", "o", "l", "d", "e", "r", "s">>

\* the lesson cards, each by the first line of its text
LESSON_CARDS ==
    (Foundations :> "Foundations (Governance & Tailoring)") @@
    (Planning :> "Planning Essentials (Scope/Schedule/Cost)") @@
    (Risk :> "Risk & Quality") @@
    (Delivery :> "Delivery Control") @@
    (EVM :> "EVM Fast Track") @@
    (Agile :> "Agile & Hybrid") @@
    (Stakeholders :> "Procurement & Stakeholders")

TOPIC_SLUGS == <<Foundations, Planning, Risk, Delivery, EVM, Agile, Stakeholders>>

----------------------------------------------------------------------------
(* Completion texts and their chunking                                     *)

MAX == 3800

\* the text of a completion of n characters
Text(n) == [from |-> 0, to |-> n]

\* len(t)
len(t) == t.to - t.from

\* t[i:j] for 0 <= i <= j; a slice bound beyond the end is clamped to it
slice(t, i, j) == [from |-> t.from + Min(i, len(t)), to |-> t.from + Min(j, len(t))]

\* range(0, n, step) as the sequence of its values
range(n, step) == [k \in 1..((n + step - 1) \div step) |-> (k - 1) * step]

----------------------------------------------------------------------------
(* The session dictionary context.user_data of one user                    *)

EmptyDict == <<>>

\* d.get(k, default)
Get(d, k, default) == IF k \in DOMAIN d THEN d[k] ELSE default

\* d[k] = v
SetItem(d, k, v) == [x \in (DOMAIN d) \cup {k} |-> IF x = k THEN v ELSE d[x]]

----------------------------------------------------------------------------
(* The handlers, each as the effect of one call                            *)

NoPrompt == [none |-> TRUE]

\* the effect of a handler that returns normally
Effect(data, reply) == [data |-> data, reply |-> reply, raised |-> FALSE, llm_calls |-> 0, prompt |-> NoPrompt, evm |-> None]

start(d) ==
    Effect(SetItem(d, "last_topic", Foundations),
           <<[kind |-> "greeting", buttons |-> <<"menu_lessons", "menu_quiz", "menu_evm", "menu_scope">>]>>)

scope_cmd(d) == Effect(d, <<[kind |-> "scope", example |-> "/calc evm 200000 180000 220000 500000"]>>)

sources_cmd(d) == Effect(d, <<[kind |-> "sources"]>>)

\* lesson_cmd storing the topic before it is looked up
lesson_cmd_store_first(d, args) ==
    IF args = <<>>
    THEN Effect(d, <<[kind |-> "choose_topic", topics |-> TOPIC_SLUGS]>>)
    ELSE LET topic == title(strip(join(<<" ">>, args)))
         IN  IF topic \notin DOMAIN LESSON_CARDS
             THEN Effect(SetItem(d, "last_topic", topic), <<[kind |-> "unknown_topic", topic |-> topic, topics |-> TOPIC_SLUGS]>>)
             ELSE Effect(SetItem(d, "last_topic", topic), <<[kind |-> "lesson", topic |-> topic, text |-> LESSON_CARDS[topic]]>>)

lesson_cmd(d, args) ==
    IF args = <<>>
    THEN Effect(d, <<[kind |-> "choose_topic", topics |-> TOPIC_SLUGS]>>)
    ELSE LET topic == title(strip(join(<<" ">>, args)))
         IN  IF topic \notin DOMAIN LESSON_CARDS
             THEN Effect(d, <<[kind |-> "unknown_topic", topic |-> topic, topics |-> TOPIC_SLUGS]>>)
             ELSE Effect(SetItem(d, "last_topic", topic), <<[kind |-> "lesson", topic |-> topic, text |-> LESSON_CARDS[topic]]>>)

quiz_cmd(d, cl, outcome) ==
    LET topic == Get(d, "last_topic", Foundations)
        prompt == [kind |-> "quiz", topic |-> topic]
    IN  IF IsNone(cl)
        THEN Effect(d, <<[kind |-> "needs_key"]>>)
        ELSE IF outcome.ok
        THEN [data |-> d, reply |-> <<[kind |-> "completion", text |-> outcome.content]>>,
              raised |-> FALSE, llm_calls |-> 1, prompt |-> prompt, evm |-> None]
        ELSE [data |-> d, reply |-> <<[kind |-> "quiz_failed", detail |-> outcome.detail]>>,
              raised |-> FALSE, llm_calls |-> 1, prompt |-> prompt, evm |-> None]

\* the lines of the report of calc_cmd; the decimal rendering of the
\* numbers (",.0f" and ".2f") is not modelled, a line carries the number
ReportLines(PV, EV, AC, BAC, res) ==
    <<[label |-> "inputs", PV |-> PV, EV |-> EV, AC |-> AC, BAC |-> IF Truthy(BAC) THEN BAC ELSE None],
      [label |-> "SPI", value |-> res.SPI],
      [label |-> "CPI", value |-> res.CPI]>>
    \o (IF ~IsNone(BAC) /\ ~IsNone(res.EAC) THEN <<[label |-> "EAC", value |-> res.EAC]>> ELSE <<>>)

calc_cmd(d, args) ==
    IF Len(args) \notin {3, 4}
    THEN Effect(d, <<[kind |-> "usage", example |-> "/calc evm 200000 180000 220000 500000"]>>)
    ELSE IF \E i \in 1..Len(args) : IsNone(float(args[i]))
    THEN Effect(d, <<[kind |-> "provide_numbers", example |-> "/calc evm 200000 180000 220000 500000"]>>)
    ELSE LET nums == [i \in 1..Len(args) |-> float(args[i])]
             PV == nums[1]
             EV == nums[2]
             AC == nums[3]
             BAC == IF Len(nums) = 4 THEN nums[4] ELSE None
             res == evm_calc(PV, EV, AC, BAC)
         IN  [data |-> d, reply |-> <<[kind |-> "report", lines |-> ReportLines(PV, EV, AC, BAC, res)]>>,
              raised |-> FALSE, llm_calls |-> 0, prompt |-> NoPrompt,
              evm |-> [args |-> <<PV, EV, AC, BAC>>, res |-> res]]

\* the messages that carry the completion text answer
Chunks(answer) ==
    IF len(answer) <= MAX
    THEN <<[kind |-> "completion", text |-> answer]>>
    ELSE LET starts == range(len(answer), MAX)
         IN  [k \in 1..Len(starts) |-> [kind |-> "completion", text |-> slice(answer, starts[k], starts[k] + MAX)]]

\* handle_text forgetting the session topic when the completion call fails
handle_text_reset_on_failure(d, cl, text, outcome) ==
    LET q == strip(text)
        user_topic == Get(d, "last_topic", Foundations)
        prompt == [kind |-> "question", topic |-> user_topic, question |-> q]
    IN  IF IsNone(cl)
        THEN Effect(d, <<[kind |-> "needs_key"]>>)
        ELSE IF outcome.ok
        THEN [data |-> d, reply |-> Chunks(outcome.content),
              raised |-> FALSE, llm_calls |-> 1, prompt |-> prompt, evm |-> None]
        ELSE [data |-> EmptyDict, reply |-> <<[kind |-> "answer_failed", detail |-> outcome.detail]>>,
              raised |-> FALSE, llm_calls |-> 1, prompt |-> prompt, evm |-> None]

handle_text(d, cl, text, outcome) ==
    LET q == strip(text)
        user_topic == Get(d, "last_topic", Foundations)
        prompt == [kind |-> "question", topic |-> user_topic, question |-> q]
    IN  IF IsNone(cl)
        THEN Effect(d, <<[kind |-> "needs_key"]>>)
        ELSE IF outcome.ok
        THEN [data |-> d, reply |-> Chunks(outcome.content),
              raised |-> FALSE, llm_calls |-> 1, prompt |-> prompt, evm |-> None]
        ELSE [data |-> d, reply |-> <<[kind |-> "answer_failed", detail |-> outcome.detail]>>,
              raised |-> FALSE, llm_calls |-> 1, prompt |-> prompt, evm |-> None]

menu_lessons == <<"m", "e", "n", "u", "_", "l", "e", "s", "s", "o", "n", "s">>

menu_quiz == <<"m", "e", "n", "u", "_", "q", "u", "i", "z">>

menu_evm == <<"m", "e", "n", "u", "_", "e", "v", "m">>

menu_scope == <<"m", "e", "n", "u", "_", "s", "c", "o", "p", "e">>

lesson_prefix == <<"l", "e", "s", "s", "o", "n", "_">>

\* query.answer(), the acknowledgement every button press starts with
Answered == [kind |-> "callback_answered"]

\* the effect of on_buttons; a press of menu_quiz runs quiz_cmd, and
\* LESSON_CARDS[topic] raises KeyError for a topic that is not a key, after
\* the topic was stored
on_buttons(d, cl, data, outcome) ==
    IF data = menu_lessons
    THEN Effect(d, <<Answered, [kind |-> "pick_lesson", buttons |-> [i \in 1..Len(TOPIC_SLUGS) |-> lesson_prefix \o TOPIC_SLUGS[i]]]>>)
    ELSE IF startswith(data, lesson_prefix)
    THEN LET topic == split1_second(data, "_")
             stored == SetItem(d, "last_topic", topic)
         IN  IF topic \in DOMAIN LESSON_CARDS
             THEN Effect(stored, <<Answered, [kind |-> "lesson", topic |-> topic, text |-> LESSON_CARDS[topic]]>>)
             ELSE [data |-> stored, reply |-> <<Answered>>, raised |-> TRUE,
                   llm_calls |-> 0, prompt |-> NoPrompt, evm |-> None]
    ELSE IF data = menu_quiz
    THEN LET e == quiz_cmd(d, cl, outcome)
         IN  [e EXCEPT !.reply = <<Answered>> \o e.reply]
    ELSE IF data = menu_evm
    THEN Effect(d, <<Answered, [kind |-> "calc_help", example |-> "/calc evm 200000 180000 220000 500000"]>>)
    ELSE IF data = menu_scope
    THEN Effect(d, <<Answered, [kind |-> "scope_help"]>>)
    ELSE Effect(d, <<Answered, [kind |-> "unknown_action"]>>)

----------------------------------------------------------------------------
(* The inputs the events are drawn from                                    *)

Users == {"u1", "u2"}

\* the OpenAI client when OPENAI_API_KEY is set
Client == [api |-> "OpenAI"]

\* a completion may be as long as MaxChunks full messages and one character
MaxChunks == 2

TextLens == {1} \cup {k * MAX : k \in 1..MaxChunks} \cup {k * MAX + 1 : k \in 1..MaxChunks}

\* what a call of the completion service comes to: a text, or an exception
Outcomes == {[ok |-> TRUE, content |-> Text(n)] : n \in TextLens} \cup {[ok |-> FALSE, detail |-> "timeout"]}

\* the outcome drawn for an event that makes no call
NoCall == [ok |-> FALSE, detail |-> "not called"]

\* the outcomes of the call an event makes, if it makes one
CallOutcomes(called) == IF called THEN Outcomes ELSE {NoCall}

\* message texts: a question, and the question with white space around it
wbs == <<"W", "B", "S", "?">>

Questions == {wbs, <<" ", "\f">> \o wbs \o <<"\n", "U+00A0">>}

Budgeting == <<"B", "u", "d", "g", "e", "t", "i", "n", "g">>

kw_evm == <<"e", "v", "m">>

Topics == {TOPIC_SLUGS[i] : i \in 1..Len(TOPIC_SLUGS)}

\* argument lists of the lesson command: none, each declared topic as
\* declared and in lower case, two in upper case, an undeclared topic, two
\* words, and words with letters outside ASCII: three that title() turns
\* into a declared topic, two that it does not
LessonArgs ==
    {<<>>, <<Budgeting>>, <<<<"p", "l", "a", "n", "n", "i", "n", "g">>, Risk>>, <<str_upper(Risk)>>, <<str_upper(Agile)>>}
    \cup {<<t>> : t \in Topics}
    \cup {<<str_lower(t)>> : t \in Topics}
    \cup {<<<<"U+017F", "t", "a", "k", "e", "h", "o", "l", "d", "e", "r", "s">>>>,
          <<<<"r", "i", "s", "U+212A">>>>,
          <<<<"U+FB06", "a", "k", "e", "h", "o", "l", "d", "e", "r", "s">>>>,
          <<<<"U+00E9", "v", "m">>>>,
          <<<<"s", "t", "a", "k", "e", "h", "o", "l", "d", "e", "r", "U+017F">>>>}

\* suffixes X of the callback data lesson_<X>
Suffixes == Topics \cup {Budgeting}

ButtonData == {menu_lessons, menu_quiz, menu_evm, menu_scope, <<"n", "o", "o", "p">>} \cup {lesson_prefix \o x : x \in Suffixes}

n200000 == <<"2", "0", "0", "0", "0", "0">>

n180000 == <<"1", "8", "0", "0", "0", "0">>

n220000 == <<"2", "2", "0", "0", "0", "0">>

n500000 == <<"5", "0", "0", "0", "0", "0">>

n0 == <<"0">>

n50 == <<"5", "0">>

n100 == <<"1", "0", "0">>

n2 == <<"2">>

n3 == <<"3">>

n4 == <<"4">>

n1eNeg400 == <<"1", "e", "-", "4", "0", "0">>

n1e1_0 == <<"1", "e", "1", "_", "0">>

n0_1 == <<"0", ".", "1">>

\* argument lists of the calc command, as the dispatcher splits the text
\* after "/calc" at white space
CalcArgs ==
    {<<kw_evm, n200000, n180000, n220000, n500000>>,
     <<kw_evm, n200000, n180000, n220000>>,
     <<n200000, n180000, n220000, n500000>>,
     <<n0, n50, n100>>,
     <<n100, n0, n50, n0>>,
     <<n100, n50, n0, n500000>>,
     <<<<"-", "4">>, n50, <<"-", "4">>, n100>>,
     <<n100, n50>>,
     <<n100, <<"a", "b", "c">>, n50>>,
     <<<<"1", ".", "5">>, n2, n3>>,
     <<<<"n", "a", "n">>, n2, n3, n4>>,
     <<<<"1", "e", "3">>, <<"1", "_", "0", "0", "0">>, <<".", "5">>, <<"-", "I", "n", "f">>>>,
     <<<<"2", "E", "-", "2">>, <<"U+0663">>, n4>>,
     <<<<"1", "_", "_", "0">>, n2, n3>>,
     <<<<"1", "e">>, n2, n3, n4>>,
     <<n1eNeg400, n2, n3>>,
     <<<<"1", "e", "4", "0", "0">>, n1e1_0, <<"-", "0">>, n0_1>>,
     <<n0_1, n3, n1e1_0, n1eNeg400>>,
     <<>>}

\* the words of the argument lists drawn, and float on them, tabulated
CalcWords == UNION {{args[i] : i \in 1..Len(args)} : args \in CalcArgs}

FloatOfWord == [w \in CalcWords |-> float(w)]

\* the session dictionaries the handlers leave behind
SessionDicts == {EmptyDict} \cup {SetItem(EmptyDict, "last_topic", t) : t \in Suffixes}

\* calc_cmd on the dictionaries and argument lists drawn, tabulated
CalcEffects == [d \in SessionDicts |-> [args \in CalcArgs |-> calc_cmd(d, args)]]

----------------------------------------------------------------------------
(* The dispatcher: one action per registered handler                       *)

NoEvent == [handler |-> "none", user |-> "none", input |-> <<>>, reply |-> <<>>, raised |-> FALSE, llm_calls |-> 0, prompt |-> NoPrompt, evm |-> None]

Init ==
    /\ client \in {None, Client}
    /\ user_data = [u \in Users |-> EmptyDict]
    /\ out = NoEvent

\* user u's event was handled by handler with effect e
Handle(u, handler, input, e) ==
    /\ user_data' = [user_data EXCEPT ![u] = e.data]
    /\ out' = [handler |-> handler, user |-> u, input |-> input, reply |-> e.reply, raised |-> e.raised,
               llm_calls |-> e.llm_calls, prompt |-> e.prompt, evm |-> e.evm]
    /\ UNCHANGED client

StartCommand(u) == Handle(u, "start", <<>>, start(user_data[u]))

ScopeCommand(u) == Handle(u, "scope_cmd", <<>>, scope_cmd(user_data[u]))

SourcesCommand(u) == Handle(u, "sources_cmd", <<>>, sources_cmd(user_data[u]))

LessonCommand(u) == \E args \in LessonArgs : Handle(u, "lesson_cmd", args, lesson_cmd(user_data[u], args))

QuizCommand(u) == \E o \in CallOutcomes(~IsNone(client)) : Handle(u, "quiz_cmd", o, quiz_cmd(user_data[u], client, o))

CalcCommand(u) ==
    \E args \in CalcArgs :
        Handle(u, "calc_cmd", args, IF user_data[u] \in SessionDicts THEN CalcEffects[user_data[u]][args] ELSE calc_cmd(user_data[u], args))

ButtonPress(u) == \E data \in ButtonData : \E o \in CallOutcomes(data = menu_quiz /\ ~IsNone(client)) : Handle(u, "on_buttons", [data |-> data, outcome |-> o], on_buttons(user_data[u], client, data, o))

TextMessage(u) == \E text \in Questions, o \in CallOutcomes(~IsNone(client)) : Handle(u, "handle_text", [text |-> text, outcome |-> o], handle_text(user_data[u], client, text, o))

Next ==
    \E u \in Users :
        \/ StartCommand(u)
        \/ ScopeCommand(u)
        \/ SourcesCommand(u)
        \/ LessonCommand(u)
        \/ QuizCommand(u)
        \/ CalcCommand(u)
        \/ ButtonPress(u)
        \/ TextMessage(u)

Spec == Init /\ [][Next]_vars

----------------------------------------------------------------------------
(* The EVM calculator on its own, applied to every argument tuple          *)

\* the largest float, 2^1024 - 2^971, and the smallest above zero, 2^-1074
MaxFloat == Fin(1, BSub(BShl(<<1>>, MantBits), <<1>>), MaxBits - MantBits)

MinFloat == Fin(1, <<1>>, MinExp)

\* the arguments are the integers of magnitude at most EvmRange, 3, one
\* tenth, the negative zero, the largest and the smallest float, the two
\* infinities and the NaN
EvmRange == 1

EvmValues ==
    {Num(n) : n \in (-EvmRange)..EvmRange}
    \cup {Num(3), truediv(Num(1), Num(10)), Zero(-1), MaxFloat, MinFloat, Inf(1), Inf(-1), NaN}

\* the argument tuples (PV, EV, AC, BAC), BAC absent or a number
EvmArgs == {<<PV, EV, AC, BAC>> : PV \in EvmValues, EV \in EvmValues, AC \in EvmValues, BAC \in EvmValues \cup {None}}

InitEvm ==
    /\ client = None
    /\ user_data = [u \in Users |-> EmptyDict]
    /\ out \in {[NoEvent EXCEPT !.handler = "caller", !.input = a] : a \in EvmArgs}

\* the caller's pending call of evm_calc is made
EvmCall ==
    /\ out.handler = "caller"
    /\ out' = [out EXCEPT !.handler = "evm_calc",
                          !.evm = [args |-> out.input, res |-> evm_calc(out.input[1], out.input[2], out.input[3], out.input[4])]]
    /\ UNCHANGED <<client, user_data>>

NextEvm == EvmCall

SpecEvm == InitEvm /\ [][NextEvm]_vars

----------------------------------------------------------------------------
(* Properties                                                              *)

\* Two words are the same up to letter case when their case foldings
\* (str.casefold) are equal; the handlers do not fold, the claims do.

\* the case folding of a character, a string
foldchar(c) == IF iscased(c) THEN CaseMap[c].fold ELSE <<c>>

\* str.casefold()
casefold(s) == Flatten([i \in 1..Len(s) |-> foldchar(s[i])])

\* the last message of an event's reply
LastReply(o) == o.reply[Len(o.reply)]

\* how an event ended: with an exception, or with a last message of a kind
Ending(e) == IF e.raised THEN "exception" ELSE LastReply(e).kind

\* the topic the next quiz of user u would put in its prompt
QuizTopic(u) == quiz_cmd(user_data[u], Client, [ok |-> TRUE, content |-> Text(1)]).prompt.topic

\* the topic the next free-text question of user u would carry as its hint
HintTopic(u) == handle_text(user_data[u], Client, wbs, [ok |-> TRUE, content |-> Text(1)]).prompt.topic

\* C1: evm_calc returns without raising, and its result is the reference:
\* SPI is EV/PV when PV # 0 and undefined otherwise, CPI is EV/AC when
\* AC # 0 and undefined otherwise, EAC is AC + (BAC - EV)/CPI exactly when
\* BAC is supplied and CPI is defined and non-zero, undefined otherwise.
C1_EvmCalcIsReference ==
    out.handler = "evm_calc" =>
        LET PV == out.evm.args[1]
            EV == out.evm.args[2]
            AC == out.evm.args[3]
            BAC == out.evm.args[4]
            res == out.evm.res
            cpi_defined == ~IsZero(AC)
            cpi_nonzero == cpi_defined /\ ~IsZero(truediv(EV, AC))
        IN  /\ ~IsError(res.SPI) /\ ~IsError(res.CPI) /\ ~IsError(res.EAC)
            /\ res.SPI = IF ~IsZero(PV) THEN truediv(EV, PV) ELSE None
            /\ res.CPI = IF cpi_defined THEN truediv(EV, AC) ELSE None
            /\ res.EAC = IF BAC # None /\ cpi_nonzero
                         THEN add(AC, truediv(sub(BAC, EV), truediv(EV, AC))) ELSE None

\* C1 witness: evm_calc has computed an EAC from a zero BAC and a negative AC
C1_Witness ==
    /\ out.handler = "evm_calc"
    /\ out.evm.args[4] = Zero(1)
    /\ IsFinite(out.evm.args[3])
    /\ out.evm.args[3].sign = -1
    /\ ~IsNone(out.evm.res.EAC)

\* the event is "calc evm PV EV AC [BAC]" with numbers for PV, EV, AC, BAC
AdvertisedCalc(o) ==
    /\ o.handler = "calc_cmd"
    /\ Len(o.input) \in {4, 5}
    /\ o.input[1] = kw_evm
    /\ \A i \in 2..Len(o.input) : ~IsNone(float(o.input[i]))

\* C2: the command "calc evm PV EV AC [BAC]" with numeric PV, EV, AC (and
\* BAC) runs the EVM calculator on those numbers and replies with the
\* report, not with the usage or the "Please provide numbers" message.
C2_AdvertisedCalcReports ==
    AdvertisedCalc(out) =>
        /\ ~out.raised
        /\ LastReply(out).kind = "report"
        /\ ~IsNone(out.evm)
        /\ out.evm.args = <<float(out.input[2]), float(out.input[3]), float(out.input[4]),
                            IF Len(out.input) = 5 THEN float(out.input[5]) ELSE None>>

\* the event is "lesson <word>" and the word is a declared topic up to case
DeclaredTopicCommand(o) ==
    /\ o.handler = "lesson_cmd"
    /\ Len(o.input) = 1
    /\ \E t \in Topics : casefold(o.input[1]) = casefold(t)

\* C3: "lesson <topic>" for a declared topic, in its declared spelling or in
\* any other letter case, replies with that topic's non-empty lesson text
\* and sets the user's session topic to that topic.
C3_DeclaredTopicIsServed ==
    DeclaredTopicCommand(out) =>
        LET t == CHOOSE t \in Topics : casefold(out.input[1]) = casefold(t)
        IN  /\ Ending(out) = "lesson"
            /\ LastReply(out).text = LESSON_CARDS[t]
            /\ LastReply(out).text # ""
            /\ "last_topic" \in DOMAIN user_data[out.user]
            /\ user_data[out.user]["last_topic"] = t

\* the event is a press of a button lesson_<X>
LessonButton(o) == o.handler = "on_buttons" /\ startswith(o.input.data, lesson_prefix)

\* C4: a press of the button lesson_<X> ends as the command "lesson <X>"
\* would have ended from the same session (the same lesson text, or the
\* same unknown-topic outcome) and leaves the same session topic.
C4_ButtonIsLessonCommand ==
    [][LessonButton(out') =>
        LET u == out'.user
            cmd == lesson_cmd(user_data[u], <<split1_second(out'.input.data, "_")>>)
        IN  /\ Ending(out') = Ending(cmd)
            /\ (Ending(cmd) = "lesson" => LastReply(out').text = LastReply(cmd).text)
            /\ user_data'[u] = cmd.data]_vars

\* the action identifiers the interface declares
DeclaredActions == {menu_lessons, menu_quiz, menu_evm, menu_scope} \cup {lesson_prefix \o t : t \in Topics}

\* C5: every action identifier other than the declared ones, lesson_<X> for
\* an undeclared X included, gets the reply "Unknown action."; the handler
\* does not raise and does not change the session topic.
C5_UndeclaredActionIsUnknown ==
    [][(out'.handler = "on_buttons" /\ out'.input.data \notin DeclaredActions) =>
        /\ Ending(out') = "unknown_action"
        /\ user_data' = user_data]_vars

\* the event is a user input error: calc with an argument count other than
\* 3 or 4, calc with a non-numeric argument, lesson with an undeclared topic
UserInputError(o) ==
    \/ o.handler = "calc_cmd" /\ Len(o.input) \notin {3, 4}
    \/ o.handler = "calc_cmd" /\ Len(o.input) \in {3, 4} /\ \E i \in 1..Len(o.input) : IsNone(IF o.input[i] \in CalcWords THEN FloatOfWord[o.input[i]] ELSE float(o.input[i]))
    \/ o.handler = "lesson_cmd" /\ o.input # <<>> /\ \A t \in Topics : casefold(join(<<" ">>, o.input)) # casefold(t)

\* C6: a user input error is answered with a usage or help message (for
\* lesson: one that lists exactly the seven declared topics), performs no
\* EVM calculation, raises nothing and leaves every session as it was.
C6_InputErrorChangesNothing ==
    [][UserInputError(out') =>
        /\ ~out'.raised
        /\ Len(out'.reply) = 1
        /\ IsNone(out'.evm)
        /\ out'.llm_calls = 0
        /\ user_data' = user_data
        /\ (out'.handler = "calc_cmd" => out'.reply[1].kind \in {"usage", "provide_numbers"})
        /\ (out'.handler = "lesson_cmd" =>
                /\ out'.reply[1].kind = "unknown_topic"
                /\ Len(out'.reply[1].topics) = 7
                /\ {out'.reply[1].topics[i] : i \in 1..7} = DOMAIN LESSON_CARDS)]_vars

\* C6 witness: an undeclared topic was asked of a user whose session topic
\* is Planning
C6_Witness ==
    /\ out.handler = "lesson_cmd"
    /\ out.input = <<Budgeting>>
    /\ LastReply(out).kind = "unknown_topic"
    /\ user_data[out.user] = SetItem(EmptyDict, "last_topic", Planning)

\* the topic a successful topic selection selects, None for any other event
Selected(o) ==
    IF o.handler = "start" /\ ~o.raised THEN Foundations
    ELSE IF o.handler = "lesson_cmd" /\ Ending(o) = "lesson" THEN LastReply(o).topic
    ELSE IF LessonButton(o) /\ split1_second(o.input.data, "_") \in Topics THEN split1_second(o.input.data, "_")
    ELSE None

\* C7: the topic of a user's next quiz prompt and next topic hint is the
\* topic of that user's most recent successful selection (a valid lesson
\* command, a topic button, or start), Foundations when there was none:
\* a successful selection sets it, no other event of any user changes it,
\* and the prompt an event submits carries it.
C7_PromptTopicIsLastSelection ==
    [][/\ \A u \in Users :
            LET was == QuizTopic(u)
                now == IF out'.user = u /\ ~IsNone(Selected(out')) THEN Selected(out') ELSE was
            IN  /\ QuizTopic(u)' = now
                /\ HintTopic(u)' = now
       /\ (out'.prompt # NoPrompt => out'.prompt.topic = QuizTopic(out'.user))]_vars

\* the completion call of the event failed
CallFailed(o) ==
    \/ o.handler = "quiz_cmd" /\ o.input \in Outcomes /\ ~o.input.ok
    \/ o.handler = "handle_text" /\ o.input.outcome \in Outcomes /\ ~o.input.outcome.ok
    \/ o.handler = "on_buttons" /\ o.input.data = menu_quiz /\ o.input.outcome \in Outcomes /\ ~o.input.outcome.ok

\* the failure detail of a failed completion call
FailureDetail(o) == IF o.handler = "quiz_cmd" THEN o.input.detail ELSE o.input.outcome.detail

\* C8: a failed completion call is answered with one apology that carries
\* the failure detail, is not retried, raises nothing and leaves the session
\* of every user as it was, so that later events see the state they would
\* have seen without the failed request.
C8_CallFailureChangesNothing ==
    [][CallFailed(out') =>
        /\ ~out'.raised
        /\ out'.llm_calls = 1
        /\ Ending(out') \in {"quiz_failed", "answer_failed"}
        /\ LastReply(out').detail = FailureDetail(out')
        /\ Len(out'.reply) = IF out'.handler = "on_buttons" THEN 2 ELSE 1
        /\ user_data' = user_data
        /\ client' = client]_vars

\* C8 witness: a free-text question failed for a user whose session topic
\* is Risk while the other user's is Agile
C8_Witness ==
    /\ out.handler = "handle_text"
    /\ CallFailed(out)
    /\ Ending(out) = "answer_failed"
    /\ user_data[out.user] = SetItem(EmptyDict, "last_topic", Risk)
    /\ \E v \in Users \ {out.user} : user_data[v] = SetItem(EmptyDict, "last_topic", Agile)

\* the event obtained a completion text
Completed(o) ==
    \/ o.handler = "quiz_cmd" /\ o.input.ok
    \/ o.handler = "handle_text" /\ o.input.outcome.ok
    \/ o.handler = "on_buttons" /\ o.input.data = menu_quiz /\ o.input.outcome.ok

\* the completion text of such an event
Completion(o) == IF o.handler = "quiz_cmd" THEN o.input.content ELSE o.input.outcome.content

\* the messages of an event that carry completion text
CompletionMessages(o) == SelectSeq(o.reply, LAMBDA m : m.kind = "completion")

\* C9: a completion text of length L > MAX, of a free-text question or of a
\* quiz, is sent as ceil(L/MAX) messages in order, each of at most MAX
\* characters and none empty, that tile the text without overlap or gap; a
\* text of length L <= MAX is sent as one message.
C9_CompletionIsChunked ==
    Completed(out) =>
        LET t == Completion(out)
            L == len(t)
            msgs == CompletionMessages(out)
        IN  IF L <= MAX
            THEN Len(msgs) = 1 /\ msgs[1].text = t
            ELSE /\ Len(msgs) * MAX >= L
                 /\ (Len(msgs) - 1) * MAX < L
                 /\ \A k \in 1..Len(msgs) : len(msgs[k].text) > 0 /\ len(msgs[k].text) <= MAX
                 /\ msgs[1].text.from = t.from
                 /\ \A k \in 1..(Len(msgs) - 1) : msgs[k + 1].text.from = msgs[k].text.to
                 /\ msgs[Len(msgs)].text.to = t.to

\* C10: each user's stored last_topic is absent or one of the seven declared
\* topics.
C10_StoredTopicIsDeclared ==
    \A u \in Users : "last_topic" \in DOMAIN user_data[u] => user_data[u]["last_topic"] \in Topics

====
